---- MODULE Spec2Model ----
(***************************************************************************)
(* Swiss-table dictionaries of the repository:                             *)
(*   Objects/dictobject.c             PyDictObject  (linear probing,       *)
(*                                    tombstones, insertion-order list)    *)
(*   Objects/swissdictobject.c        SwissDictObject, 8-slot control words*)
(*   Objects/swissdictobject_simple.c SwissDictObject, 16-slot groups,     *)
(*                                    the type Modules/swissmodule.c       *)
(*                                    exports                              *)
(* Objects are small integers; NULL is 0.  A pointer into an entries array *)
(* is the index of the entry, the null entry pointer is NoEntry.           *)
(***************************************************************************)
EXTENDS Integers, Sequences, FiniteSets, TLC

\* ------------------------------------------------------------------ bounds
NumKeys == 2
NumValues == 2
NumFillKeys == 9
NumSwissKeys == 9
NumSimpleKeys == 15
MaxOverwrites == 2
MaxSwissCapacity == 32
MaxCapacity == 16

\* --------------------------------------------------------------- constants
SWISS_MIN_CAPACITY == 8
SWISS_EMPTY == 128
SWISS_DELETED == 254
XOR_REMAP == 66
CTRL_MASK == 127

NULL == 0
NoEntry == -1
UnhashableKey == 99
RaisingEqKey == 98

Keys == 1..NumKeys
FillKeys == 1..NumFillKeys
WideKeys == 1..(NumKeys + 1)
Values == 1..NumValues
AllKeys == Keys \cup {UnhashableKey}

\* ------------------------------------------------------------ host runtime
\* PyObject_Hash: -1 signals failure (an unhashable key).  The hashes collide
\* in the low bits (keys 1 and 2 share slot and fingerprint) and one of every
\* three is negative.
PyObject_Hash(key) ==
  IF key = UnhashableKey THEN -1
  ELSE IF key = RaisingEqKey THEN 257
  ELSE CASE key % 3 = 1 -> key
         [] key % 3 = 2 -> 127 + key
         [] OTHER       -> 0 - (key - 1)

\* PyObject_RichCompareBool(a, b, Py_EQ): 1 equal, 0 different, -1 when the
\* comparison raised.  Identical objects are equal without a call of __eq__;
\* the __eq__ of RaisingEqKey raises.
PyObject_RichCompareBool(a, b) ==
  IF a = b THEN 1
  ELSE IF a = RaisingEqKey \/ b = RaisingEqKey THEN -1
  ELSE 0

\* The shares (references) a table has taken on objects and not released:
\* each Py_INCREF the table's code executes adds one, each Py_DECREF removes
\* one.  Key objects and value objects are distinct objects.
ObjectKeys ==
  AllKeys \cup WideKeys \cup FillKeys \cup (1..NumSwissKeys) \cup {RaisingEqKey}

NoShares == [key |-> [k \in ObjectKeys |-> 0], value |-> [v \in Values |-> 0]]

Py_INCREF(shares, kind, obj) == [shares EXCEPT ![kind][obj] = @ + 1]

Py_DECREF(shares, kind, obj) == [shares EXCEPT ![kind][obj] = @ - 1]

RECURSIVE BitXor(_, _)
BitXor(a, b) ==
  IF a = 0 THEN b
  ELSE IF b = 0 THEN a
  ELSE (((a % 2) + (b % 2)) % 2) + (2 * BitXor(a \div 2, b \div 2))

\* ============================================================ dictobject.c
VARIABLES mp, it, sw, sd, last, bound, order, nset, ndel

vars == <<mp, it, sw, sd, last, bound, order, nset, ndel>>

dict_vars == <<mp, it, bound, order, nset, ndel>>

NullEntry == [key |-> NULL, value |-> NULL, prev |-> NoEntry, next |-> NoEntry]

dict_new ==
  [capacity |-> SWISS_MIN_CAPACITY,
   used |-> 0,
   deleted |-> 0,
   entries |-> [i \in 0..(SWISS_MIN_CAPACITY - 1) |-> NullEntry],
   control_bytes |-> [i \in 0..(SWISS_MIN_CAPACITY - 1) |-> SWISS_EMPTY],
   ma_head |-> NoEntry,
   ma_tail |-> NoEntry,
   shares |-> NoShares]

swiss_hash_to_ctrl(hash) ==
  LET h == hash % (CTRL_MASK + 1)
  IN IF h = SWISS_EMPTY \/ h = SWISS_DELETED THEN BitXor(h, XOR_REMAP) ELSE h

\* swiss_probe_loop with a probe that also stops at a tombstone.
RECURSIVE swiss_probe_loop_stop_at_deleted(_, _, _, _, _)
swiss_probe_loop_stop_at_deleted(t, i, n_probe, ctrl, key) ==
  IF n_probe >= t.capacity THEN [idx |-> -1, found |-> 0]
  ELSE LET c == t.control_bytes[i]
       IN IF c = ctrl /\ t.entries[i].key # NULL
             /\ PyObject_RichCompareBool(t.entries[i].key, key) = 1
          THEN [idx |-> i, found |-> 1]
          ELSE IF c # ctrl /\ (c = SWISS_EMPTY \/ c = SWISS_DELETED)
          THEN [idx |-> i, found |-> 0]
          ELSE swiss_probe_loop_stop_at_deleted(t, (i + 1) % t.capacity,
                                                n_probe + 1, ctrl, key)

\* The loop of swiss_probe from slot i with n_probe probes done.
RECURSIVE swiss_probe_loop(_, _, _, _, _)
swiss_probe_loop(t, i, n_probe, ctrl, key) ==
  IF n_probe >= t.capacity THEN [idx |-> -1, found |-> 0]
  ELSE LET c == t.control_bytes[i]
       IN IF c = ctrl /\ t.entries[i].key # NULL
             /\ PyObject_RichCompareBool(t.entries[i].key, key) = 1
          THEN [idx |-> i, found |-> 1]
          ELSE IF c # ctrl /\ c = SWISS_EMPTY
          THEN [idx |-> i, found |-> 0]
          ELSE swiss_probe_loop(t, (i + 1) % t.capacity, n_probe + 1, ctrl, key)

\* Did a comparison made by the loop of swiss_probe, from slot i on, return
\* -1 (an exception is then pending when swiss_probe returns)?
RECURSIVE swiss_probe_compare_failed(_, _, _, _, _)
swiss_probe_compare_failed(t, i, n_probe, ctrl, key) ==
  IF n_probe >= t.capacity THEN FALSE
  ELSE LET c == t.control_bytes[i]
           cmp == IF c = ctrl /\ t.entries[i].key # NULL
                  THEN PyObject_RichCompareBool(t.entries[i].key, key) ELSE 0
       IN IF cmp = 1 THEN FALSE
          ELSE IF cmp = -1 THEN TRUE
          ELSE IF c # ctrl /\ c = SWISS_EMPTY THEN FALSE
          ELSE swiss_probe_compare_failed(t, (i + 1) % t.capacity, n_probe + 1,
                                          ctrl, key)

swiss_probe(t, hash, ctrl, key) ==
  swiss_probe_loop(t, hash % t.capacity, 0, ctrl, key)

\* dict_lookup: the value, or NULL.
dict_lookup(t, key) ==
  LET hash == PyObject_Hash(key)
  IN IF hash = -1 THEN NULL
     ELSE LET p == swiss_probe(t, hash, swiss_hash_to_ctrl(hash), key)
          IN IF p.found = 1 /\ p.idx >= 0 THEN t.entries[p.idx].value ELSE NULL

\* The inner while loop of dict_resize: the first EMPTY slot from j.
RECURSIVE resize_find_empty(_, _, _)
resize_find_empty(new_ctrl, new_capacity, j) ==
  IF new_ctrl[j] # SWISS_EMPTY
  THEN resize_find_empty(new_ctrl, new_capacity, (j + 1) % new_capacity)
  ELSE j

\* "Rehash all active entries": old slots in index order, from slot i on.
RECURSIVE resize_rehash(_, _, _, _, _)
resize_rehash(t, new_capacity, new_entries, new_ctrl, i) ==
  IF i >= t.capacity THEN [entries |-> new_entries, ctrl |-> new_ctrl]
  ELSE IF t.entries[i].key # NULL /\ t.control_bytes[i] # SWISS_DELETED
  THEN LET key == t.entries[i].key
           hash == PyObject_Hash(key)
           j == resize_find_empty(new_ctrl, new_capacity, hash % new_capacity)
       IN resize_rehash(t, new_capacity,
            [new_entries EXCEPT ![j].key = key, ![j].value = t.entries[i].value],
            [new_ctrl EXCEPT ![j] = swiss_hash_to_ctrl(hash)],
            i + 1)
  ELSE resize_rehash(t, new_capacity, new_entries, new_ctrl, i + 1)

\* resize_relink_drops_prev that leaves the prev pointers NULL.
RECURSIVE resize_relink_drops_prev(_, _, _, _, _)
resize_relink_drops_prev(new_entries, new_capacity, prev, head, i) ==
  IF i >= new_capacity THEN [entries |-> new_entries, head |-> head, tail |-> prev]
  ELSE IF new_entries[i].key # NULL
  THEN LET e1 == [new_entries EXCEPT ![i].prev = NoEntry, ![i].next = NoEntry]
           e2 == IF prev # NoEntry THEN [e1 EXCEPT ![prev].next = i] ELSE e1
       IN resize_relink_drops_prev(e2, new_capacity, i, IF prev # NoEntry THEN head ELSE i, i + 1)
  ELSE resize_relink_drops_prev(new_entries, new_capacity, prev, head, i + 1)

\* "Rebuild the doubly linked list": new slots in index order, from slot i on.
RECURSIVE resize_relink(_, _, _, _, _)
resize_relink(new_entries, new_capacity, prev, head, i) ==
  IF i >= new_capacity THEN [entries |-> new_entries, head |-> head, tail |-> prev]
  ELSE IF new_entries[i].key # NULL
  THEN LET e1 == [new_entries EXCEPT ![i].prev = prev, ![i].next = NoEntry]
           e2 == IF prev # NoEntry THEN [e1 EXCEPT ![prev].next = i] ELSE e1
       IN resize_relink(e2, new_capacity, i, IF prev # NoEntry THEN head ELSE i, i + 1)
  ELSE resize_relink(new_entries, new_capacity, prev, head, i + 1)

\* A resize whose new array has a tombstone in slot 0 when no entry lands
\* there.
dict_resize_leaves_tombstone(t, min_capacity, alloc_ok) ==
  LET old_capacity == t.capacity
      new_capacity == IF old_capacity * 2 < min_capacity THEN min_capacity
                      ELSE old_capacity * 2
  IN IF ~alloc_ok THEN [t |-> t, ret |-> -1]
     ELSE LET r == resize_rehash(t, new_capacity,
                     [i \in 0..(new_capacity - 1) |-> NullEntry],
                     [i \in 0..(new_capacity - 1) |-> SWISS_EMPTY], 0)
              l == resize_relink(r.entries, new_capacity, NoEntry, NoEntry, 0)
          IN [t |-> [t EXCEPT !.entries = l.entries,
                               !.control_bytes = [r.ctrl EXCEPT ![0] = IF @ = SWISS_EMPTY
                                                               THEN SWISS_DELETED ELSE @],
                               !.capacity = new_capacity,
                               !.deleted = 0,
                               !.ma_head = l.head,
                               !.ma_tail = l.tail],
              ret |-> 0]

\* A resize that leaves the tombstone counter as it was.
dict_resize_keeps_deleted(t, min_capacity, alloc_ok) ==
  LET old_capacity == t.capacity
      new_capacity == IF old_capacity * 2 < min_capacity THEN min_capacity
                      ELSE old_capacity * 2
  IN IF ~alloc_ok THEN [t |-> t, ret |-> -1]
     ELSE LET r == resize_rehash(t, new_capacity,
                     [i \in 0..(new_capacity - 1) |-> NullEntry],
                     [i \in 0..(new_capacity - 1) |-> SWISS_EMPTY], 0)
              l == resize_relink(r.entries, new_capacity, NoEntry, NoEntry, 0)
          IN [t |-> [t EXCEPT !.entries = l.entries,
                               !.control_bytes = r.ctrl,
                               !.capacity = new_capacity,
                               !.ma_head = l.head,
                               !.ma_tail = l.tail],
              ret |-> 0]

\* dict_resize; alloc_ok is whether calloc and malloc both succeed.
dict_resize(t, min_capacity, alloc_ok) ==
  LET old_capacity == t.capacity
      new_capacity == IF old_capacity * 2 < min_capacity THEN min_capacity
                      ELSE old_capacity * 2
  IN IF ~alloc_ok THEN [t |-> t, ret |-> -1]
     ELSE LET r == resize_rehash(t, new_capacity,
                     [i \in 0..(new_capacity - 1) |-> NullEntry],
                     [i \in 0..(new_capacity - 1) |-> SWISS_EMPTY], 0)
              l == resize_relink(r.entries, new_capacity, NoEntry, NoEntry, 0)
          IN [t |-> [t EXCEPT !.entries = l.entries,
                               !.control_bytes = r.ctrl,
                               !.capacity = new_capacity,
                               !.deleted = 0,
                               !.ma_head = l.head,
                               !.ma_tail = l.tail],
              ret |-> 0]

\* load > SWISS_MAX_LOAD (0.875 = 7/8, exact in a double).
insert_needs_resize(t) == (t.used + t.deleted) * 8 > t.capacity * 7

\* dict_insert after its load check, on table t.
dict_insert_probe(t, key, value) ==
  LET hash == PyObject_Hash(key)
  IN IF hash = -1 THEN [t |-> t, ret |-> -1, err |-> "hash"]
     ELSE LET ctrl == swiss_hash_to_ctrl(hash)
              p == swiss_probe(t, hash, ctrl, key)
              idx == p.idx
          IN IF idx < 0 THEN [t |-> t, ret |-> -1, err |-> "full"]
             ELSE IF p.found = 1
             THEN [t |-> [t EXCEPT
                            !.entries[idx].value = value,
                            !.shares = Py_INCREF(
                                         Py_DECREF(t.shares, "value",
                                                   t.entries[idx].value),
                                         "value", value)],
                   ret |-> 0, err |-> "ok"]
             ELSE LET e1 == [t.entries EXCEPT
                               ![idx] = [key |-> key, value |-> value,
                                         prev |-> t.ma_tail, next |-> NoEntry]]
                      e2 == IF t.ma_tail # NoEntry
                            THEN [e1 EXCEPT ![t.ma_tail].next = idx] ELSE e1
                  IN [t |-> [t EXCEPT !.entries = e2,
                                      !.control_bytes[idx] = ctrl,
                                      !.ma_head = IF t.ma_tail # NoEntry
                                                  THEN t.ma_head ELSE idx,
                                      !.ma_tail = idx,
                                      !.shares = Py_INCREF(
                                                   Py_INCREF(t.shares, "key", key),
                                                   "value", value),
                                      !.used = t.used + 1],
                      ret |-> 0, err |-> "ok"]

dict_insert(t, key, value, alloc_ok) ==
  IF insert_needs_resize(t)
  THEN LET r == dict_resize(t, t.capacity * 2, alloc_ok)
       IN IF r.ret < 0 THEN [t |-> t, ret |-> -1, err |-> "oom"]
          ELSE dict_insert_probe(r.t, key, value)
  ELSE dict_insert_probe(t, key, value)

delete_needs_resize(t) ==
  t.used * 2 < t.capacity /\ t.deleted > t.capacity \div 4

\* dict_delete_probe that unlinks the entry but leaves its key, value and
\* control byte in the slot.
dict_delete_probe_keeps_entry(t, key) ==
  LET hash == PyObject_Hash(key)
  IN IF hash = -1 THEN [t |-> t, ret |-> -1, err |-> "hash"]
     ELSE LET p == swiss_probe(t, hash, swiss_hash_to_ctrl(hash), key)
              idx == p.idx
          IN IF p.found = 0 \/ idx < 0 THEN [t |-> t, ret |-> -1, err |-> "notfound"]
             ELSE LET entry == t.entries[idx]
                      e1 == IF entry.prev # NoEntry
                            THEN [t.entries EXCEPT ![entry.prev].next = entry.next]
                            ELSE t.entries
                      e2 == IF entry.next # NoEntry
                            THEN [e1 EXCEPT ![entry.next].prev = entry.prev]
                            ELSE e1
                  IN [t |-> [t EXCEPT !.entries = [e2 EXCEPT ![idx].prev = NoEntry,
                                                             ![idx].next = NoEntry],
                                      !.ma_head = IF entry.prev # NoEntry
                                                  THEN t.ma_head ELSE entry.next,
                                      !.ma_tail = IF entry.next # NoEntry
                                                  THEN t.ma_tail ELSE entry.prev,
                                      !.used = t.used - 1,
                                      !.deleted = t.deleted + 1],
                      ret |-> 0, err |-> "ok"]

\* dict_delete_probe without the decrement of used.
dict_delete_probe_keeps_used(t, key) ==
  LET hash == PyObject_Hash(key)
  IN IF hash = -1 THEN [t |-> t, ret |-> -1, err |-> "hash"]
     ELSE LET p == swiss_probe(t, hash, swiss_hash_to_ctrl(hash), key)
              idx == p.idx
          IN IF p.found = 0 \/ idx < 0 THEN [t |-> t, ret |-> -1, err |-> "notfound"]
             ELSE LET entry == t.entries[idx]
                      e1 == IF entry.prev # NoEntry
                            THEN [t.entries EXCEPT ![entry.prev].next = entry.next]
                            ELSE t.entries
                      e2 == IF entry.next # NoEntry
                            THEN [e1 EXCEPT ![entry.next].prev = entry.prev]
                            ELSE e1
                  IN [t |-> [t EXCEPT !.entries = [e2 EXCEPT ![idx] = NullEntry],
                                      !.ma_head = IF entry.prev # NoEntry
                                                  THEN t.ma_head ELSE entry.next,
                                      !.ma_tail = IF entry.next # NoEntry
                                                  THEN t.ma_tail ELSE entry.prev,
                                      !.control_bytes[idx] = SWISS_DELETED,
                                      !.deleted = t.deleted + 1],
                      ret |-> 0, err |-> "ok"]

\* dict_delete_probe that marks the slot EMPTY instead of DELETED.
dict_delete_probe_marks_empty(t, key) ==
  LET hash == PyObject_Hash(key)
  IN IF hash = -1 THEN [t |-> t, ret |-> -1, err |-> "hash"]
     ELSE LET p == swiss_probe(t, hash, swiss_hash_to_ctrl(hash), key)
              idx == p.idx
          IN IF p.found = 0 \/ idx < 0 THEN [t |-> t, ret |-> -1, err |-> "notfound"]
             ELSE LET entry == t.entries[idx]
                      e1 == IF entry.prev # NoEntry
                            THEN [t.entries EXCEPT ![entry.prev].next = entry.next]
                            ELSE t.entries
                      e2 == IF entry.next # NoEntry
                            THEN [e1 EXCEPT ![entry.next].prev = entry.prev]
                            ELSE e1
                  IN [t |-> [t EXCEPT !.entries = [e2 EXCEPT ![idx] = NullEntry],
                                      !.ma_head = IF entry.prev # NoEntry
                                                  THEN t.ma_head ELSE entry.next,
                                      !.ma_tail = IF entry.next # NoEntry
                                                  THEN t.ma_tail ELSE entry.prev,
                                      !.control_bytes[idx] = SWISS_EMPTY,
                                      !.used = t.used - 1,
                                      !.deleted = t.deleted + 1],
                      ret |-> 0, err |-> "ok"]

\* dict_delete after its tombstone check, on table t.
dict_delete_probe(t, key) ==
  LET hash == PyObject_Hash(key)
  IN IF hash = -1 THEN [t |-> t, ret |-> -1, err |-> "hash"]
     ELSE LET p == swiss_probe(t, hash, swiss_hash_to_ctrl(hash), key)
              idx == p.idx
          IN IF p.found = 0 \/ idx < 0 THEN [t |-> t, ret |-> -1, err |-> "notfound"]
             ELSE LET entry == t.entries[idx]
                      e1 == IF entry.prev # NoEntry
                            THEN [t.entries EXCEPT ![entry.prev].next = entry.next]
                            ELSE t.entries
                      e2 == IF entry.next # NoEntry
                            THEN [e1 EXCEPT ![entry.next].prev = entry.prev]
                            ELSE e1
                  IN [t |-> [t EXCEPT !.entries = [e2 EXCEPT ![idx] = NullEntry],
                                      !.ma_head = IF entry.prev # NoEntry
                                                  THEN t.ma_head ELSE entry.next,
                                      !.ma_tail = IF entry.next # NoEntry
                                                  THEN t.ma_tail ELSE entry.prev,
                                      !.control_bytes[idx] = SWISS_DELETED,
                                      !.shares = Py_DECREF(
                                                   Py_DECREF(t.shares, "key",
                                                             entry.key),
                                                   "value", entry.value),
                                      !.used = t.used - 1,
                                      !.deleted = t.deleted + 1],
                      ret |-> 0, err |-> "ok"]

dict_delete(t, key, alloc_ok) ==
  IF delete_needs_resize(t)
  THEN LET r == dict_resize(t, t.capacity, alloc_ok)
       IN IF r.ret < 0 THEN [t |-> t, ret |-> -1, err |-> "oom"]
          ELSE dict_delete_probe(r.t, key)
  ELSE dict_delete_probe(t, key)

\* dict_dealloc: the arrays are freed; no Py_DECREF is executed.
dict_dealloc(t) ==
  [t EXCEPT !.entries = <<>>, !.control_bytes = <<>>]

dict_length(t) == t.used

\* The keys dictiter_next yields from a fresh dict_iter until it returns NULL.
RECURSIVE iter_from(_, _, _)
iter_from(t, cur, n) ==
  IF cur = NoEntry \/ n > t.capacity THEN <<>>
  ELSE <<t.entries[cur].key>> \o iter_from(t, t.entries[cur].next, n + 1)

IterKeys(t) == iter_from(t, t.ma_head, 0)

\* ======================================================= swissdictobject.c
\* The SwissDictObject with 8-slot control words.  A control word is the
\* function from byte position 0..7 to the byte; control_words is indexed by
\* the groups that were allocated, which num_groups need not equal.

SWISS_GROUP_SIZE == 8
SWISS_H2_MASK == 127
H2_SHIFT == 256

EmptyEntry == [key |-> NULL, value |-> NULL, hash |-> 0]
EmptyWord == [j \in 0..(SWISS_GROUP_SIZE - 1) |-> SWISS_EMPTY]

\* What a read of control_words past its end can find there.
JunkWords ==
  {EmptyWord,
   [j \in 0..(SWISS_GROUP_SIZE - 1) |-> 0],
   [j \in 0..(SWISS_GROUP_SIZE - 1) |-> SWISS_DELETED]}

swissdict_new ==
  [used |-> 0,
   capacity |-> SWISS_GROUP_SIZE,
   version |-> 0,
   entries |-> [i \in 0..(SWISS_GROUP_SIZE - 1) |-> EmptyEntry],
   num_groups |-> 1,
   control_words |-> [g \in 0..0 |-> EmptyWord],
   shares |-> NoShares]

\* h2 = (hash >> 8) & SWISS_H2_MASK, the shift being arithmetic.
swiss_h2(hash) == (hash \div H2_SHIFT) % (SWISS_H2_MASK + 1)

\* group_idx = (h1 + i) % num_groups with h1 = hash % num_groups converted to
\* size_t: num_groups is a power of two, so the wrap of a negative remainder
\* modulo 2^64 leaves the mathematical residue.
swiss_group_idx(s, hash, i) == (hash + i) % s.num_groups

\* control_words[g]; junk is what lies past the end of the array.
control_word(s, g, junk) ==
  IF g \in DOMAIN s.control_words THEN s.control_words[g] ELSE junk

\* find_entry from byte j of the i-th group probed: the slot, or -1 for NULL.
RECURSIVE find_entry_loop(_, _, _, _, _, _)
find_entry_loop(s, key, hash, junk, i, j) ==
  IF i >= s.num_groups THEN -1
  ELSE IF j >= SWISS_GROUP_SIZE THEN find_entry_loop(s, key, hash, junk, i + 1, 0)
  ELSE LET group_idx == swiss_group_idx(s, hash, i)
           ctrl_byte == control_word(s, group_idx, junk)[j]
           slot == group_idx * SWISS_GROUP_SIZE + j
       IN IF /\ ctrl_byte = swiss_h2(hash)
             /\ slot < s.capacity
             /\ s.entries[slot].key # NULL
             /\ s.entries[slot].hash = hash
             /\ PyObject_RichCompareBool(s.entries[slot].key, key) = 1
          THEN slot
          ELSE IF ctrl_byte = SWISS_EMPTY THEN -1
          ELSE find_entry_loop(s, key, hash, junk, i, j + 1)

find_entry(s, key, hash, junk) == find_entry_loop(s, key, hash, junk, 0, 0)

\* insert_into_table from byte j of the i-th group probed.
RECURSIVE insert_into_table_loop(_, _, _, _, _, _, _)
insert_into_table_loop(s, key, value, hash, junk, i, j) ==
  IF i >= s.num_groups THEN [s |-> s, ret |-> -1]
  ELSE IF j >= SWISS_GROUP_SIZE
  THEN insert_into_table_loop(s, key, value, hash, junk, i + 1, 0)
  ELSE LET group_idx == swiss_group_idx(s, hash, i)
           ctrl_byte == control_word(s, group_idx, junk)[j]
           slot == group_idx * SWISS_GROUP_SIZE + j
       IN IF /\ (ctrl_byte = SWISS_EMPTY \/ ctrl_byte = SWISS_DELETED)
             /\ slot < s.capacity
          THEN [s |-> [s EXCEPT
                        !.entries[slot] = [key |-> key, value |-> value,
                                           hash |-> hash],
                        !.control_words[group_idx][j] = swiss_h2(hash),
                        !.shares = Py_INCREF(Py_INCREF(s.shares, "key", key),
                                             "value", value)],
                ret |-> 0]
          ELSE insert_into_table_loop(s, key, value, hash, junk, i, j + 1)

insert_into_table(s, key, value, hash, junk) ==
  insert_into_table_loop(s, key, value, hash, junk, 0, 0)

\* "Calculate new size": SWISS_GROUP_SIZE doubled until it reaches min_size.
RECURSIVE resize_capacity(_, _)
resize_capacity(new_capacity, min_size) ==
  IF new_capacity < min_size THEN resize_capacity(new_capacity * 2, min_size)
  ELSE new_capacity

\* "Reinsert all entries" of the old array into s, from old slot i on.
RECURSIVE resize_reinsert(_, _, _, _)
resize_reinsert(s, old_entries, old_capacity, i) ==
  IF i >= old_capacity THEN s
  ELSE IF old_entries[i].key # NULL
  THEN resize_reinsert(
         insert_into_table(s, old_entries[i].key, old_entries[i].value,
                           old_entries[i].hash, EmptyWord).s,
         old_entries, old_capacity, i + 1)
  ELSE resize_reinsert(s, old_entries, old_capacity, i + 1)

\* swissdict_resize; alloc_ok is whether both PyMem_Calloc calls succeed.
swissdict_resize(s, min_size, alloc_ok) ==
  LET new_capacity == resize_capacity(SWISS_GROUP_SIZE, min_size)
      new_groups == new_capacity \div SWISS_GROUP_SIZE
  IN IF ~alloc_ok
     THEN [s |-> [s EXCEPT !.num_groups = new_groups], ret |-> -1]
     ELSE [s |-> resize_reinsert(
                   [s EXCEPT !.entries = [i \in 0..(new_capacity - 1) |-> EmptyEntry],
                             !.num_groups = new_groups,
                             !.control_words = [g \in 0..(new_groups - 1) |-> EmptyWord],
                             !.capacity = new_capacity],
                   s.entries, s.capacity, 0),
           ret |-> 0]

\* (used + 1) * 8 > capacity * 7
swiss_needs_resize(s) == (s.used + 1) * 8 > s.capacity * 7

\* swissdict_ass_sub; value = NULL asks for a deletion.
swissdict_ass_sub(s, key, value, alloc_ok, junk) ==
  IF value = NULL THEN [s |-> s, ret |-> -1, err |-> "notimplemented"]
  ELSE LET hash == PyObject_Hash(key)
       IN IF hash = -1 THEN [s |-> s, ret |-> -1, err |-> "hash"]
          ELSE LET existing == find_entry(s, key, hash, junk)
               IN IF existing # -1
                  THEN [s |-> [s EXCEPT
                                 !.entries[existing].value = value,
                                 !.shares = Py_DECREF(
                                              Py_INCREF(s.shares, "value", value),
                                              "value", s.entries[existing].value),
                                 !.version = s.version + 1],
                        ret |-> 0, err |-> "ok"]
                  ELSE LET r == IF swiss_needs_resize(s)
                                THEN swissdict_resize(s, s.used * 2, alloc_ok)
                                ELSE [s |-> s, ret |-> 0]
                       IN IF r.ret # 0 THEN [s |-> r.s, ret |-> -1, err |-> "oom"]
                          ELSE LET n == insert_into_table(r.s, key, value, hash, junk)
                               IN IF n.ret # 0 THEN [s |-> n.s, ret |-> -1, err |-> "full"]
                                  ELSE [s |-> [n.s EXCEPT !.used = n.s.used + 1,
                                                          !.version = n.s.version + 1],
                                        ret |-> 0, err |-> "ok"]

\* swissdict_subscript: the value, or NULL with KeyError.
swissdict_subscript(s, key, junk) ==
  LET hash == PyObject_Hash(key)
  IN IF hash = -1 THEN NULL
     ELSE LET e == find_entry(s, key, hash, junk)
          IN IF e = -1 THEN NULL ELSE s.entries[e].value

swissdict_length(s) == s.used

\* ================================================ swissdictobject_simple.c
\* The SwissDictObject with 16-slot SwissGroup structs, which is the type
\* Modules/swissmodule.c includes and exports as swiss.SwissDict.

SWISS_GROUP_SIZE_simple == 16

EmptyGroup ==
  [control |-> [i \in 0..(SWISS_GROUP_SIZE_simple - 1) |-> SWISS_EMPTY],
   keys    |-> [i \in 0..(SWISS_GROUP_SIZE_simple - 1) |-> NULL],
   values  |-> [i \in 0..(SWISS_GROUP_SIZE_simple - 1) |-> NULL],
   hashes  |-> [i \in 0..(SWISS_GROUP_SIZE_simple - 1) |-> 0]]

swissdict_new_simple ==
  [used |-> 0,
   capacity |-> SWISS_GROUP_SIZE_simple,
   version |-> 0,
   num_groups |-> 1,
   groups |-> [g \in 0..0 |-> EmptyGroup]]

\* The positions of _mm_movemask_epi8 over the control bytes of a group.
find_match_in_group_simd(control, h2) ==
  {i \in DOMAIN control : control[i] = h2}

find_empty_in_group_simd(control) ==
  {i \in DOMAIN control : control[i] = SWISS_EMPTY}

find_available_in_group_simd(control) ==
  {i \in DOMAIN control : control[i] = SWISS_EMPTY \/ control[i] = SWISS_DELETED}

\* __builtin_ctz of a nonzero mask: its lowest position.
ctz(mask) == CHOOSE i \in mask : \A j \in mask : i <= j

\* Does the entry at position pos of a group match key, as both lookup loops
\* test it: the same object, or an equal key with the same hash.
group_key_matches(group, pos, key, hash) ==
  \/ group.keys[pos] = key
  \/ /\ group.keys[pos] # NULL
     /\ group.hashes[pos] = hash
     /\ PyObject_RichCompareBool(group.keys[pos], key) = 1

\* The match loop over one group: the lowest matching position, or -1.
group_find(group, key, hash) ==
  LET hits == {pos \in find_match_in_group_simd(group.control, swiss_h2(hash)) :
                 group_key_matches(group, pos, key, hash)}
  IN IF hits = {} THEN -1 ELSE ctz(hits)

\* swissdict_subscript from group g on: the value, or NULL with KeyError.
RECURSIVE swissdict_subscript_loop(_, _, _, _)
swissdict_subscript_loop(s, key, hash, g) ==
  IF g >= s.num_groups THEN NULL
  ELSE LET group == s.groups[g]
           pos == group_find(group, key, hash)
       IN IF pos # -1 THEN group.values[pos]
          ELSE IF find_empty_in_group_simd(group.control) = DOMAIN group.control
          THEN NULL
          ELSE swissdict_subscript_loop(s, key, hash, g + 1)

swissdict_subscript_simple(s, key) ==
  LET hash == PyObject_Hash(key)
  IN IF hash = -1 THEN NULL ELSE swissdict_subscript_loop(s, key, hash, 0)

\* insert_into_table from group g on.
RECURSIVE insert_into_table_simple_loop(_, _, _, _, _)
insert_into_table_simple_loop(s, key, value, hash, g) ==
  IF g >= s.num_groups THEN [s |-> s, ret |-> -1]
  ELSE LET available_mask == find_available_in_group_simd(s.groups[g].control)
       IN IF available_mask # {}
          THEN LET pos == ctz(available_mask)
               IN [s |-> [s EXCEPT !.groups[g].keys[pos] = key,
                                   !.groups[g].values[pos] = value,
                                   !.groups[g].hashes[pos] = hash,
                                   !.groups[g].control[pos] = swiss_h2(hash)],
                   ret |-> 0]
          ELSE insert_into_table_simple_loop(s, key, value, hash, g + 1)

insert_into_table_simple(s, key, value, hash) ==
  insert_into_table_simple_loop(s, key, value, hash, 0)

\* "Reinsert all entries" of old_groups into s, from slot i of group g on.
RECURSIVE resize_reinsert_simple(_, _, _, _)
resize_reinsert_simple(s, old, g, i) ==
  IF g >= old.num_groups THEN [s |-> s, ret |-> 0]
  ELSE IF i >= SWISS_GROUP_SIZE_simple THEN resize_reinsert_simple(s, old, g + 1, 0)
  ELSE IF old.groups[g].keys[i] # NULL
  THEN LET n == insert_into_table_simple(s, old.groups[g].keys[i],
                  old.groups[g].values[i], old.groups[g].hashes[i])
       IN IF n.ret # 0 THEN [s |-> old, ret |-> -1]
          ELSE resize_reinsert_simple(n.s, old, g, i + 1)
  ELSE resize_reinsert_simple(s, old, g, i + 1)

\* swissdict_resize; alloc_ok is whether PyMem_Calloc succeeds.
swissdict_resize_simple(s, min_size, alloc_ok) ==
  LET new_capacity == resize_capacity(SWISS_GROUP_SIZE_simple, min_size)
      new_groups == new_capacity \div SWISS_GROUP_SIZE_simple
  IN IF ~alloc_ok THEN [s |-> s, ret |-> -1]
     ELSE resize_reinsert_simple(
            [s EXCEPT !.num_groups = new_groups,
                      !.groups = [g \in 0..(new_groups - 1) |-> EmptyGroup],
                      !.capacity = new_capacity],
            s, 0, 0)

\* "Check if key already exists": the group and position, over all groups.
RECURSIVE ass_sub_find_simple(_, _, _, _)
ass_sub_find_simple(s, key, hash, g) ==
  IF g >= s.num_groups THEN [g |-> -1, pos |-> -1]
  ELSE LET pos == group_find(s.groups[g], key, hash)
       IN IF pos # -1 THEN [g |-> g, pos |-> pos]
          ELSE ass_sub_find_simple(s, key, hash, g + 1)

\* swissdict_ass_sub; value = NULL asks for a deletion.
swissdict_ass_sub_simple(s, key, value, alloc_ok) ==
  IF value = NULL THEN [s |-> s, ret |-> -1, err |-> "notimplemented"]
  ELSE LET hash == PyObject_Hash(key)
       IN IF hash = -1 THEN [s |-> s, ret |-> -1, err |-> "hash"]
          ELSE LET f == ass_sub_find_simple(s, key, hash, 0)
               IN IF f.g # -1
                  THEN [s |-> [s EXCEPT !.groups[f.g].values[f.pos] = value,
                                        !.version = s.version + 1],
                        ret |-> 0, err |-> "ok"]
                  ELSE LET r == IF swiss_needs_resize(s)
                                THEN swissdict_resize_simple(s, s.used * 2, alloc_ok)
                                ELSE [s |-> s, ret |-> 0]
                       IN IF r.ret # 0 THEN [s |-> r.s, ret |-> -1,
                                             err |-> IF alloc_ok THEN "full" ELSE "oom"]
                          ELSE LET n == insert_into_table_simple(r.s, key, value, hash)
                               IN IF n.ret # 0 THEN [s |-> n.s, ret |-> -1, err |-> "full"]
                                  ELSE [s |-> [n.s EXCEPT !.used = n.s.used + 1,
                                                          !.version = n.s.version + 1],
                                        ret |-> 0, err |-> "ok"]

\* ------------------------------------------------- the dict as a machine
\* mp is the PyDictObject and it the one iterator object over it (kind "none"
\* before it is created): di_cur is its cursor, freed tells that the entries
\* array di_cur points into was freed by a resize, and stale that a set or del
\* succeeded since the iterator was made.  last is the last call and what it
\* returned; err names the path a failed call took, and the op of a next call
\* tells its outcome.
\* bound, order, nset and ndel record the calls made so far: bound[k] is the
\* value of the last successful set of k not followed by a successful del of
\* k (NULL when there is none), order lists the bound keys by the time they
\* became bound, nset counts the successful sets of a key not bound at that
\* moment and ndel the successful dels.

Remove(seq, x) == SelectSeq(seq, LAMBDA y : y # x)

Init ==
  /\ mp = dict_new
  /\ it = [kind |-> "none", di_cur |-> NoEntry, freed |-> FALSE, stale |-> FALSE]
  /\ sw = swissdict_new
  /\ sd = swissdict_new_simple
  /\ last = [op |-> "new", key |-> NULL, ret |-> 0, err |-> "ok"]
  /\ bound = [k \in AllKeys \cup WideKeys \cup FillKeys \cup {RaisingEqKey} |-> NULL]
  /\ order = <<>>
  /\ nset = 0
  /\ ndel = 0

\* The outcomes of the allocations of a resize to new_capacity slots: calloc
\* and malloc can succeed only for arrays of at most MaxCapacity slots.
AllocOutcomes(needed, new_capacity, max_capacity) ==
  IF ~needed THEN {TRUE}
  ELSE IF new_capacity > max_capacity THEN {FALSE}
  ELSE {TRUE, FALSE}

\* The values a run binds to key: any value to the keys of Keys, the first
\* value to the others.
InputValues(key) == IF key \in Keys THEN Values ELSE {1}

\* What a call that took the table from t to t2 and returned ret does to the
\* iterator.
iter_after_call(t, t2, ret) ==
  IF it.kind = "none" THEN it
  ELSE [it EXCEPT !.freed = it.freed \/ t2.capacity # t.capacity,
                  !.stale = it.stale \/ ret = 0]

PyDict_SetItem(key, value) ==
  \E alloc_ok \in AllocOutcomes(insert_needs_resize(mp), mp.capacity * 2, MaxCapacity) :
    LET r == dict_insert(mp, key, value, alloc_ok)
    IN /\ mp' = r.t
       /\ it' = iter_after_call(mp, r.t, r.ret)
       /\ last' = [op |-> "set", key |-> key, ret |-> r.ret, err |-> r.err]
       /\ bound' = IF r.ret = 0 THEN [bound EXCEPT ![key] = value] ELSE bound
       /\ order' = IF r.ret = 0 /\ bound[key] = NULL THEN Append(order, key)
                   ELSE order
       /\ nset' = IF r.ret = 0 /\ bound[key] = NULL THEN nset + 1 ELSE nset
       /\ ndel' = ndel
       /\ UNCHANGED <<sw, sd>>

PyDict_DelItem(key) ==
  \E alloc_ok \in AllocOutcomes(delete_needs_resize(mp), mp.capacity * 2, MaxCapacity) :
    LET r == dict_delete(mp, key, alloc_ok)
    IN /\ mp' = r.t
       /\ it' = iter_after_call(mp, r.t, r.ret)
       /\ last' = [op |-> "del", key |-> key, ret |-> r.ret, err |-> r.err]
       /\ bound' = IF r.ret = 0 THEN [bound EXCEPT ![key] = NULL] ELSE bound
       /\ order' = IF r.ret = 0 THEN Remove(order, key) ELSE order
       /\ ndel' = IF r.ret = 0 THEN ndel + 1 ELSE ndel
       /\ nset' = nset
       /\ UNCHANGED <<sw, sd>>

PyDict_GetItem(key) ==
  /\ last' = [op |-> "get", key |-> key, ret |-> dict_lookup(mp, key),
              err |-> "ok"]
  /\ UNCHANGED <<mp, it, sw, sd, bound, order, nset, ndel>>

\* dict_iter, dict_values, dict_items: a new iterator at the head of the list.
dict_iter(kind) ==
  /\ it' = [kind |-> kind, di_cur |-> mp.ma_head, freed |-> FALSE, stale |-> FALSE]
  /\ last' = [op |-> "iter", key |-> NULL, ret |-> 0, err |-> "ok"]
  /\ UNCHANGED <<mp, sw, sd, bound, order, nset, ndel>>

\* What a next call that reads through a dangling di_cur, or takes a share of
\* a NULL object, can do.
UndefinedNext == {"next:element", "next:end", "next:crash"}

\* dictiter_next, dict_valueiter_next, dict_itemiter_next.
dictiter_next ==
  /\ it.kind # "none"
  /\ IF it.di_cur = NoEntry
     THEN /\ last' = [op |-> "next:end", key |-> NULL, ret |-> 0, err |-> "ok"]
          /\ it' = it
     ELSE IF it.freed
     THEN /\ \E o \in UndefinedNext :
               last' = [op |-> o, key |-> NULL, ret |-> 0, err |-> "ok"]
          /\ it' = it
     ELSE LET e == mp.entries[it.di_cur]
              obj == IF it.kind = "values" THEN e.value ELSE e.key
          IN /\ it' = [it EXCEPT !.di_cur = e.next]
             /\ IF obj = NULL
                THEN \E o \in UndefinedNext :
                       last' = [op |-> o, key |-> NULL, ret |-> 0, err |-> "ok"]
                ELSE last' = [op |-> "next:element", key |-> obj, ret |-> 0,
                              err |-> "ok"]
  /\ UNCHANGED <<mp, sw, sd, bound, order, nset, ndel>>

Next ==
  \/ \E key \in AllKeys, value \in Values : PyDict_SetItem(key, value)
  \/ \E key \in AllKeys : PyDict_DelItem(key)
  \/ \E key \in AllKeys : PyDict_GetItem(key)

Spec == Init /\ [][Next]_vars

\* The same calls with one more key.
NextWide ==
  \/ \E key \in WideKeys, value \in Values : PyDict_SetItem(key, value)
  \/ \E key \in WideKeys : PyDict_DelItem(key)
  \/ \E key \in WideKeys : PyDict_GetItem(key)

SpecWide == Init /\ [][NextWide]_vars

\* The same calls with a key whose __eq__ raises.
EqKeys == Keys \cup {RaisingEqKey}

NextEq ==
  \/ \E key \in EqKeys, value \in Values : PyDict_SetItem(key, value)
  \/ \E key \in EqKeys : PyDict_DelItem(key)
  \/ \E key \in EqKeys : PyDict_GetItem(key)

SpecEq == Init /\ [][NextEq]_vars

\* Runs that end with the destruction of the dict.
tp_dealloc ==
  /\ mp' = dict_dealloc(mp)
  /\ last' = [op |-> "dealloc", key |-> NULL, ret |-> 0, err |-> "ok"]
  /\ UNCHANGED <<it, sw, sd, bound, order, nset, ndel>>

NextDealloc ==
  /\ last.op # "dealloc"
  /\ \/ \E key \in Keys, value \in Values : PyDict_SetItem(key, value)
     \/ \E key \in Keys : PyDict_DelItem(key)
     \/ tp_dealloc

SpecDealloc == Init /\ [][NextDealloc]_vars

\* Runs with an iterator: sets and dels, and one iterator of any kind.
NextIter ==
  \/ \E key \in Keys, value \in Values : PyDict_SetItem(key, value)
  \/ \E key \in Keys : PyDict_DelItem(key)
  \/ \E kind \in {"keys", "values", "items"} : it.kind = "none" /\ dict_iter(kind)
  \/ dictiter_next

SpecIter == Init /\ [][NextIter]_vars

\* Insert-only runs: the keys 1, 2, ... of FillKeys are set in that order,
\* each once, and nothing is deleted.
FillInsert(value) ==
  /\ nset < NumFillKeys
  /\ value \in InputValues(nset + 1)
  /\ PyDict_SetItem(nset + 1, value)

NextFill ==
  \/ \E value \in Values : FillInsert(value)
  \/ \E key \in FillKeys : PyDict_GetItem(key)

SpecFill == Init /\ [][NextFill]_vars

\* Insert-and-overwrite runs: as SpecFill, plus sets of keys already set.
Overwrite(key, value) ==
  /\ bound[key] # NULL
  /\ value \in InputValues(key)
  /\ PyDict_SetItem(key, value)

NextOver ==
  \/ \E value \in Values : FillInsert(value)
  \/ \E key \in FillKeys, value \in Values : Overwrite(key, value)

SpecOver == Init /\ [][NextOver]_vars

\* ------------------------------------------- the SwissDicts as machines
\* sw is the SwissDictObject of swissdictobject.c and sd the one of
\* swissdictobject_simple.c.  Neither type can delete, so the keys in a table
\* are 1..used when the runs set the keys 1, 2, ... in that order, and
\* version - used counts the overwrites.

SwissInputKeys(s, num_keys) ==
  {k \in 1..num_keys : k <= s.used + 1} \cup {UnhashableKey}

\* mp_ass_subscript of swissdictobject.c; value = NULL is a deletion.
sw_ass_sub(key, value) ==
  /\ value # NULL => sw.version - sw.used < MaxOverwrites
  /\ \E alloc_ok \in AllocOutcomes(swiss_needs_resize(sw),
                       resize_capacity(SWISS_GROUP_SIZE, sw.used * 2),
                       MaxSwissCapacity),
        junk \in IF sw.num_groups * SWISS_GROUP_SIZE > sw.capacity
                 THEN JunkWords ELSE {EmptyWord} :
       LET r == swissdict_ass_sub(sw, key, value, alloc_ok, junk)
       IN /\ sw' = r.s
          /\ last' = [op |-> IF value = NULL THEN "sw_del" ELSE "sw_set",
                      key |-> key, ret |-> r.ret, err |-> r.err]
  /\ UNCHANGED <<sd, dict_vars>>

\* mp_subscript of swissdictobject.c.
sw_subscript(key) ==
  /\ \E junk \in IF sw.num_groups * SWISS_GROUP_SIZE > sw.capacity
                 THEN JunkWords ELSE {EmptyWord} :
       last' = [op |-> "sw_get", key |-> key,
                ret |-> swissdict_subscript(sw, key, junk), err |-> "ok"]
  /\ UNCHANGED <<sw, sd, dict_vars>>

NextSwiss ==
  \/ \E key \in SwissInputKeys(sw, NumSwissKeys),
        value \in Values \cup {NULL} :
       /\ value \in InputValues(key) \cup {NULL}
       /\ sw_ass_sub(key, value)
  \/ \E key \in SwissInputKeys(sw, NumSwissKeys) : sw_subscript(key)

SpecSwiss == Init /\ [][NextSwiss]_vars

\* mp_ass_subscript of swissdictobject_simple.c; value = NULL is a deletion.
sd_ass_sub(key, value) ==
  /\ value # NULL => sd.version - sd.used < MaxOverwrites
  /\ \E alloc_ok \in AllocOutcomes(swiss_needs_resize(sd),
                       resize_capacity(SWISS_GROUP_SIZE_simple, sd.used * 2),
                       MaxSwissCapacity) :
       LET r == swissdict_ass_sub_simple(sd, key, value, alloc_ok)
       IN /\ sd' = r.s
          /\ last' = [op |-> IF value = NULL THEN "sd_del" ELSE "sd_set",
                      key |-> key, ret |-> r.ret, err |-> r.err]
  /\ UNCHANGED <<sw, dict_vars>>

\* mp_subscript of swissdictobject_simple.c.
sd_subscript(key) ==
  /\ last' = [op |-> "sd_get", key |-> key,
              ret |-> swissdict_subscript_simple(sd, key), err |-> "ok"]
  /\ UNCHANGED <<sw, sd, dict_vars>>

NextSimple ==
  \/ \E key \in SwissInputKeys(sd, NumSimpleKeys),
        value \in Values \cup {NULL} :
       /\ value \in InputValues(key) \cup {NULL}
       /\ sd_ass_sub(key, value)
  \/ \E key \in SwissInputKeys(sd, NumSimpleKeys) : sd_subscript(key)

SpecSimple == Init /\ [][NextSimple]_vars

\* ============================================================== properties

InSeq(x, seq) == \E i \in 1..Len(seq) : seq[i] = x

\* C1: for every key that has been set and not deleted since, get returns
\* the value of its last set, whatever growth or rehash happened in between.
C1_GetReturnsLastValue ==
  \A k \in DOMAIN bound : bound[k] # NULL => dict_lookup(mp, k) = bound[k]

\* A get of a bound key has just returned its value, after a growth and with
\* tombstones in the table.
C1_Witness ==
  /\ last.op = "get" /\ bound[last.key] # NULL /\ last.ret = bound[last.key]
  /\ mp.capacity > SWISS_MIN_CAPACITY /\ mp.deleted > 0 /\ mp.used > 1

\* C2: len is the number of sets that inserted a key not present minus the
\* number of dels that succeeded.
C2_LenIsInsertsMinusDeletes == dict_length(mp) = nset - ndel

\* Keys were inserted and deleted, the table grew, and a set that only
\* overwrote has just returned.
C2_Witness ==
  /\ ndel > 1 /\ nset > ndel + 1 /\ mp.capacity > SWISS_MIN_CAPACITY
  /\ last.op = "set" /\ last.ret = 0

\* C3: after inserts of distinct keys and no delete, iteration yields the
\* keys in the order of their insertion (checked in insert-only runs).
C3_IterationIsInsertionOrder == IterKeys(mp) = order

\* C4: a set of a key that is already present leaves the sequence of keys
\* that iteration yields as it was.
C4_OverwriteKeepsOrder ==
  [][(last'.op = "set" /\ last'.ret = 0 /\ bound[last'.key] # NULL)
       => IterKeys(mp') = IterKeys(mp)]_vars

\* C5: a successful del of k leaves the iteration sequence as it was, less k.
C5_DeleteRemovesOnlyKey ==
  [][(last'.op = "del" /\ last'.ret = 0)
       => IterKeys(mp') = Remove(IterKeys(mp), last'.key)]_vars

\* C6: a key whose last del succeeded and that was not set since is not
\* found by get and not yielded by iteration, and the successful del of a
\* key leaves what get returns for every other key as it was.
C6_DeletedKeyIsGone ==
  /\ [](\A k \in DOMAIN bound :
          bound[k] = NULL =>
            dict_lookup(mp, k) = NULL /\ ~InSeq(k, IterKeys(mp)))
  /\ [][(last'.op = "del" /\ last'.ret = 0)
          => \A j \in DOMAIN bound \ {last'.key} :
               dict_lookup(mp', j) = dict_lookup(mp, j)]_vars

\* A del of a present key has just succeeded with another key in the table,
\* in a table that was rehashed into larger arrays.
C6_Witness ==
  /\ last.op = "del" /\ last.ret = 0 /\ bound[last.key] = NULL
  /\ mp.used > 0 /\ mp.deleted = 1 /\ mp.capacity > SWISS_MIN_CAPACITY

\* C7: a next call on an iterator made before the last successful set or del
\* reports concurrent-modification.
C7_StaleIteratorFails ==
  (it.stale /\ last.op \in UndefinedNext \cup {"next:concurrent-modification"})
    => last.op = "next:concurrent-modification"

\* C8: on the exported SwissDict a delete of a present key returns ok and
\* removes the entry, and a delete of an absent key signals not-found.
C8_SwissDictDeletes ==
  [][(last'.op = "sd_del" /\ PyObject_Hash(last'.key) # -1)
       => IF swissdict_subscript_simple(sd, last'.key) # NULL
          THEN last'.ret = 0 /\ swissdict_subscript_simple(sd', last'.key) = NULL
          ELSE last'.err = "notfound"]_vars

\* C9: a call in which an allocation of a growth or rehash fails leaves the
\* table it was made on exactly as it was.
C9_AllocFailureLeavesTable ==
  [][last'.err = "oom" => (mp' = mp /\ sw' = sw /\ sd' = sd)]_vars

\* C10: a set or del whose hash callback fails leaves the table as it was.
C10_HashFailureLeavesTable ==
  [][(last'.op \in {"set", "del"} /\ PyObject_Hash(last'.key) = -1)
       => mp' = mp]_vars

\* The table a set or del of the last call probed: the one it was made on,
\* or the one its resize built.
ProbedTable(t, op) ==
  IF op = "set" /\ insert_needs_resize(t) THEN dict_resize(t, t.capacity * 2, TRUE).t
  ELSE IF op = "del" /\ delete_needs_resize(t) THEN dict_resize(t, t.capacity, TRUE).t
  ELSE t

\* C11: a set, get or del in whose probe the equality callback failed fails
\* (a get returns NULL, a set or del -1), and inserts, overwrites and removes
\* no entry.
C11_EqFailureAborts ==
  [][(/\ last'.op \in {"set", "get", "del"}
      /\ last'.err # "oom"
      /\ PyObject_Hash(last'.key) # -1
      /\ LET t == ProbedTable(mp, last'.op)
             hash == PyObject_Hash(last'.key)
         IN swiss_probe_compare_failed(t, hash % t.capacity, 0,
                                       swiss_hash_to_ctrl(hash), last'.key))
       => /\ last'.ret = (IF last'.op = "get" THEN NULL ELSE -1)
          /\ mp'.used = mp.used
          /\ IterKeys(mp') = IterKeys(mp)
          /\ \A k \in DOMAIN bound : dict_lookup(mp', k) = dict_lookup(mp, k)]_vars

\* C12: between operations used + tombstones is at most 7/8 of the capacity,
\* in the dict and in the SwissDict of swissdictobject.c.
C12_LoadFactorBound ==
  /\ (mp.used + mp.deleted) * 8 <= mp.capacity * 7
  /\ sw.used * 8 <= sw.capacity * 7

\* The slots a probe for a key whose probe starts at slot start looks at
\* before it looks at slot i.
ProbePath(t, start, i) ==
  {(start + d) % t.capacity : d \in 0..(((i - start) % t.capacity) - 1)}

OccupiedSlots(t) == {i \in DOMAIN t.entries : t.entries[i].key # NULL}

\* C13: every occupied slot carries the control byte of its key and is
\* reached from the probe start of its key's hash without passing an EMPTY
\* control byte.
C13_ProbePathHasNoEmpty ==
  \A i \in OccupiedSlots(mp) :
    LET hash == PyObject_Hash(mp.entries[i].key)
    IN /\ mp.control_bytes[i] = swiss_hash_to_ctrl(hash)
       /\ \A j \in ProbePath(mp, hash % mp.capacity, i) :
            mp.control_bytes[j] # SWISS_EMPTY

\* In a table that was rehashed into larger arrays, a key sits behind a
\* tombstone on its probe path.
C13_Witness ==
  /\ mp.capacity > SWISS_MIN_CAPACITY
  /\ \E i \in OccupiedSlots(mp) :
       \E j \in ProbePath(mp, PyObject_Hash(mp.entries[i].key) % mp.capacity, i) :
         mp.control_bytes[j] = SWISS_DELETED

\* C14: an operation on a table with used < C/2 and tombstones > C/4 ends
\* with no tombstone in the table (a rehash happened) or with the table
\* still in that condition.
C14_TombstoneConditionLeadsToRehash ==
  [][(delete_needs_resize(mp) /\ last'.op \in {"set", "get", "del"})
       => (mp'.deleted = 0 \/ delete_needs_resize(mp'))]_vars

\* C15: the shares the SwissDict holds on each key object and each value
\* object are one per occupied slot that references it, growths included.
C15_GrowthAcquiresNoShares ==
  /\ \A k \in ObjectKeys :
       sw.shares.key[k] =
         Cardinality({i \in DOMAIN sw.entries : sw.entries[i].key = k})
  /\ \A v \in Values :
       sw.shares.value[v] =
         Cardinality({i \in DOMAIN sw.entries :
                        sw.entries[i].key # NULL /\ sw.entries[i].value = v})

\* C16: after the destruction of the dict, it holds no share of any key or
\* value object.
C16_DestroyReleasesShares ==
  last.op = "dealloc" => mp.shares = NoShares

\* The slots reached from slot cur by following next, n slots being done.
RECURSIVE list_from(_, _, _)
list_from(t, cur, n) ==
  IF cur = NoEntry \/ n > t.capacity THEN <<>>
  ELSE <<cur>> \o list_from(t, t.entries[cur].next, n + 1)

ListSlots(t) == list_from(t, t.ma_head, 0)

\* C17: the insertion-order list is a well-formed doubly-linked list over
\* exactly the occupied slots: next from head visits each occupied slot once
\* and nothing else, its length is used, head and tail are null exactly when
\* used is 0, and prev is the inverse of next.
C17_ListWellFormed ==
  LET l == ListSlots(mp)
  IN /\ Len(l) = mp.used
     /\ {l[i] : i \in 1..Len(l)} = OccupiedSlots(mp)
     /\ Cardinality(OccupiedSlots(mp)) = mp.used
     /\ (mp.ma_head = NoEntry) <=> (mp.used = 0)
     /\ (mp.ma_tail = NoEntry) <=> (mp.used = 0)
     /\ \A i \in 1..(Len(l) - 1) : mp.entries[l[i + 1]].prev = l[i]
     /\ Len(l) > 0 =>
          /\ mp.entries[l[1]].prev = NoEntry
          /\ mp.ma_tail = l[Len(l)]
          /\ mp.entries[mp.ma_tail].next = NoEntry

\* Two keys are linked in a table that was rehashed into larger arrays and
\* has seen a delete since.
C17_Witness ==
  /\ mp.used > 1 /\ mp.deleted > 0 /\ mp.capacity > SWISS_MIN_CAPACITY
  /\ Len(ListSlots(mp)) > 1

\* The first slot with an EMPTY or DELETED control byte on the probe path
\* from slot i, n slots being done; -1 when there is none.
RECURSIVE first_available(_, _, _)
first_available(t, i, n) ==
  IF n >= t.capacity THEN -1
  ELSE IF t.control_bytes[i] \in {SWISS_EMPTY, SWISS_DELETED} THEN i
  ELSE first_available(t, (i + 1) % t.capacity, n + 1)

\* C18: a set that inserts a new key whose probe path meets a tombstone
\* before the first EMPTY slot places the entry in that tombstone slot and
\* decrements the tombstone count.
C18_InsertReusesTombstone ==
  [][LET t == ProbedTable(mp, "set")
         a == first_available(t, PyObject_Hash(last'.key) % t.capacity, 0)
     IN (/\ last'.op = "set" /\ last'.ret = 0 /\ bound[last'.key] = NULL
         /\ a >= 0 /\ t.control_bytes[a] = SWISS_DELETED)
          => (/\ mp'.entries[a].key = last'.key
              /\ mp'.deleted = t.deleted - 1)]_vars

\* C19: the rehash a del runs under the tombstone condition builds a table
\* of the same capacity with no tombstone, the same used and the same
\* key/value pairs, and the del leaves the capacity as it was.
C19_RehashKeepsCapacity ==
  [][(last'.op = "del" /\ last'.err # "oom" /\ delete_needs_resize(mp))
       => LET r == dict_resize(mp, mp.capacity, TRUE).t
          IN /\ r.capacity = mp.capacity
             /\ r.deleted = 0
             /\ r.used = mp.used
             /\ \A k \in DOMAIN bound : dict_lookup(r, k) = dict_lookup(mp, k)
             /\ mp'.capacity = mp.capacity]_vars

IsPowerOfTwo(n) == \E e \in 0..30 : 2 ^ e = n

\* C20: the capacity of the dict is a power of two and at least 16, and a
\* new dict has used = 0, no tombstone and capacity 16.
C20_CapacityPowerOfTwoAtLeast16 ==
  /\ IsPowerOfTwo(mp.capacity)
  /\ mp.capacity >= 16
  /\ last.op = "new" => (mp.used = 0 /\ mp.deleted = 0 /\ mp.capacity = 16)

\* A slot with control byte ctrl, key and value is consistent for a key
\* hash of which hashfn yields hash: the high bit of ctrl is clear iff key is
\* non-null iff value is non-null, and ctrl of an occupied slot is the low
\* 7 bits of the hash.
SlotConsistent(ctrl, key, value) ==
  /\ (ctrl < 128) <=> (key # NULL)
  /\ (key # NULL) <=> (value # NULL)
  /\ key # NULL => ctrl = PyObject_Hash(key) % 128

\* C21: every slot of the dict and of the SwissDict of swissdictobject.c is
\* consistent: occupied control byte iff key iff value, and the control byte
\* of an occupied slot is the low 7 bits of the hash of its key.
C21_ControlByteMatchesSlot ==
  /\ \A i \in DOMAIN mp.entries :
       SlotConsistent(mp.control_bytes[i], mp.entries[i].key, mp.entries[i].value)
  /\ \A i \in DOMAIN sw.entries :
       SlotConsistent(sw.control_words[i \div SWISS_GROUP_SIZE][i % SWISS_GROUP_SIZE],
                      sw.entries[i].key, sw.entries[i].value)

\* The k-th group of the triangular sequence for hash h over groups groups:
\* g0 = (h >> 7) & (groups - 1), g(k+1) = (g(k) + k + 1) & (groups - 1).
RECURSIVE TriangularGroup(_, _, _)
TriangularGroup(h, groups, k) ==
  IF k = 0 THEN (h \div 128) % groups
  ELSE (TriangularGroup(h, groups, k - 1) + k) % groups

\* C22: the groups that find_entry and insert_into_table examine for a key
\* are those of the triangular sequence of its hash, in that order, and the
\* first num_groups steps of that sequence visit every group once.
C22_TriangularGroupProbing ==
  sw.num_groups * SWISS_GROUP_SIZE = sw.capacity =>
    \A key \in 1..NumSwissKeys :
      LET h == PyObject_Hash(key)
      IN /\ \A i \in 0..(sw.num_groups - 1) :
              swiss_group_idx(sw, h, i) = TriangularGroup(h, sw.num_groups, i)
         /\ {TriangularGroup(h, sw.num_groups, i) : i \in 0..(sw.num_groups - 1)}
              = 0..(sw.num_groups - 1)

\* C23: the array a growth or rehash builds holds no tombstone, and a
\* control byte becomes a tombstone only in a successful del of the key that
\* occupied its slot; never from EMPTY.
C23_NoEmptyToTombstone ==
  [][LET t == IF last'.err = "oom" THEN mp ELSE ProbedTable(mp, last'.op)
     IN /\ t # mp => \A i \in DOMAIN t.control_bytes :
                       t.control_bytes[i] # SWISS_DELETED
        /\ \A i \in DOMAIN mp'.control_bytes :
             (mp'.control_bytes[i] = SWISS_DELETED
                /\ t.control_bytes[i] # SWISS_DELETED)
               => /\ last'.op = "del" /\ last'.ret = 0
                  /\ t.control_bytes[i] # SWISS_EMPTY
                  /\ t.entries[i].key = last'.key]_vars

\* A del has just turned a slot into a tombstone in an array built by a
\* growth or rehash, next to older tombstones and a live entry.
C23_Witness ==
  /\ last.op = "del" /\ last.ret = 0
  /\ mp.capacity > SWISS_MIN_CAPACITY /\ mp.deleted > 1 /\ mp.used > 0
  /\ \E i \in DOMAIN mp.control_bytes :
       mp.control_bytes[i] = SWISS_DELETED
         /\ PyObject_Hash(last.key) % mp.capacity = i

\* C24: for every hashable key, swiss_probe on the table meets the key or
\* an EMPTY control byte within capacity steps: it never returns -1.
C24_ProbeNeverExhausts ==
  \A key \in DOMAIN bound :
    PyObject_Hash(key) # -1 =>
      swiss_probe(mp, PyObject_Hash(key),
                  swiss_hash_to_ctrl(PyObject_Hash(key)), key).idx >= 0

\* C25: no two occupied slots of a table hold equal keys, in the dict and in
\* both SwissDicts.
C25_KeysUnique ==
  /\ \A i, j \in OccupiedSlots(mp) :
       PyObject_RichCompareBool(mp.entries[i].key, mp.entries[j].key) = 1 => i = j
  /\ \A i, j \in DOMAIN sw.entries :
       (sw.entries[i].key # NULL /\ sw.entries[i].key = sw.entries[j].key) => i = j
  /\ \A g, h \in DOMAIN sd.groups :
       \A i, j \in 0..(SWISS_GROUP_SIZE_simple - 1) :
         (sd.groups[g].keys[i] # NULL
            /\ sd.groups[g].keys[i] = sd.groups[h].keys[j]) => (g = h /\ i = j)

\* C26: used is the number of control bytes with the high bit clear and
\* deleted is the number of control bytes equal to SWISS_DELETED.
C26_CountersMatchControlBytes ==
  /\ mp.used =
       Cardinality({i \in DOMAIN mp.control_bytes : mp.control_bytes[i] < 128})
  /\ mp.deleted =
       Cardinality({i \in DOMAIN mp.control_bytes :
                      mp.control_bytes[i] = SWISS_DELETED})

\* A set has just inserted a second key into a table that was rehashed into
\* larger arrays and holds tombstones again.
C26_Witness ==
  /\ last.op = "set" /\ last.ret = 0
  /\ mp.capacity > SWISS_MIN_CAPACITY /\ mp.used = 2 /\ mp.deleted > 1

\* C27: a del of a key that is not in the table signals not-found and leaves
\* capacity, used, tombstones, the stored pairs and the iteration order as
\* they were.
C27_FailedDeleteLeavesTable ==
  [][(/\ last'.op = "del" /\ last'.err # "oom"
      /\ PyObject_Hash(last'.key) # -1
      /\ dict_lookup(mp, last'.key) = NULL)
       => /\ last'.ret = -1 /\ last'.err = "notfound"
          /\ mp'.capacity = mp.capacity
          /\ mp'.used = mp.used
          /\ mp'.deleted = mp.deleted
          /\ IterKeys(mp') = IterKeys(mp)
          /\ \A k \in DOMAIN bound : dict_lookup(mp', k) = dict_lookup(mp, k)]_vars

====
